---- MODULE Spec2Model ----
(***************************************************************************)
(* Model of src/src/Utilities.js: the Utilities wrapper of the Forge       *)
(* viewer.  The wrapper's methods are modelled statement by statement; the *)
(* viewer engine they call (document loader, object tree, overlay manager, *)
(* fragment list) is the environment, modelled from its interface in the   *)
(* specification (sections 3, 4 and 6).                                    *)
(***************************************************************************)
EXTENDS Integers, Sequences, FiniteSets, TLC

\* ------------------------------------------------------------------ bounds
MaxCallbacks == 2    \* callback invocations the engine makes for one operation
MaxViewables == 2    \* viewables of one document
MaxNodes == 4        \* object-tree nodes below the root
MaxMeshCalls == 3    \* addCustomMesh/removeCustomMesh calls in one behaviour
MaxFrags == 2        \* fragments of the loaded model

\* --------------------------------------------------------------- JS values
\* Every value carries a tag, as typeof does.
Undefined == [tag |-> "undefined"]
Null == [tag |-> "null"]
Num(n) == [tag |-> "number", v |-> n]
Str(s) == [tag |-> "string", v |-> s]
List(s) == [tag |-> "array", v |-> s]

typeof(x) == x.tag

\* if (x): undefined and null are falsy, objects are truthy.
Truthy(x) == x.tag \notin {"undefined", "null"}

\* arr[i] of a JS array held as a 1-based sequence: undefined off its ends.
ArrayGet(arr, i) == IF i \in 0..(Len(arr) - 1) THEN arr[i + 1] ELSE Undefined

\* ------------------------------------------------- documents of the engine
ViewableTypes == {"geometry", "sheet"}

\* A document is the list of its viewables' types, in the order the engine
\* walks its tree; a document's urn stands for the document itself.
Documents == UNION {[1..n -> ViewableTypes] : n \in 0..MaxViewables}
BadUrn == <<"missing">>
Urns == Documents \cup {BadUrn}

GuidNames == <<"g1", "g2", "g3", "g4", "g5">>
GuidSelectors == {Str(GuidNames[k]) : k \in 1..(MaxViewables + 1)}
IndexSelectors == {Num(n) : n \in (-1)..MaxViewables}
Selectors == GuidSelectors \cup IndexSelectors \cup {Undefined}

Viewable(urn, k) ==
    [tag |-> "viewable", urn |-> urn, id |-> k, guid |-> GuidNames[k], type |-> urn[k]]

\* doc.getRoot(): the viewables of the document in tree order.
getRoot(doc) == [k \in 1..Len(doc) |-> Viewable(doc, k)]

\* root.findByGuid(guid): the viewable with that guid, or null.
findByGuid(root, guid) ==
    IF \E k \in 1..Len(root) : root[k].guid = guid
    THEN root[CHOOSE k \in 1..Len(root) : root[k].guid = guid]
    ELSE Null

\* root.search({ type }): the viewables of that type, order preserved.
IsOfType(v, type) == v.type = type
search(root, type) == SelectSeq(root, LAMBDA v : IsOfType(v, type))

\* Autodesk.Viewing.Document.load(urn, ...): the document the request names.
DocumentRequest(documentUrn) == [prefix |-> "urn:", id |-> documentUrn]
RequestedDocument(req) ==
    IF req.prefix = "urn:" /\ req.id \in Documents THEN req.id ELSE BadUrn

\* ------------------------------------------------ object tree of the engine
\* A tree over the ids 0..n: 0 is the root, parent[k] < k is the parent of k.
Trees ==
    {p \in UNION {[1..n -> 0..(n - 1)] : n \in 0..MaxNodes} :
        \A k \in DOMAIN p : p[k] < k}

ParentIds == {Undefined} \cup {Num(n) : n \in 0..MaxNodes}

RECURSIVE Ascending(_)
Ascending(S) ==
    IF S = {} THEN <<>>
    ELSE LET m == CHOOSE x \in S : \A y \in S : x <= y
         IN  <<m>> \o Ascending(S \ {m})

ChildrenOf(tree, id) == Ascending({k \in DOMAIN tree : tree[k] = id})

\* tree.getRootId()
getRootId(tree) == 0

\* tree.getChildCount(id)
getChildCount(tree, id) == Cardinality({k \in DOMAIN tree : tree[k] = id})

\* tree.enumNodeChildren(parent, callback, true): the ids the callback is
\* called with, in order: the nodes below parent, level by level.
RECURSIVE Visit(_, _)
Visit(tree, queue) ==
    IF queue = <<>> THEN <<>>
    ELSE <<Head(queue)>> \o Visit(tree, Tail(queue) \o ChildrenOf(tree, Head(queue)))

enumNodeChildren(tree, parent) == Visit(tree, ChildrenOf(tree, parent))

\* The fragments of a node: a leaf below the root is drawn by one fragment.
FragmentsOf(tree, id) ==
    IF id \in DOMAIN tree /\ getChildCount(tree, id) = 0 THEN <<id>> ELSE <<>>

RECURSIVE FragmentsOfAll(_, _)
FragmentsOfAll(tree, ids) ==
    IF ids = <<>> THEN <<>>
    ELSE FragmentsOf(tree, Head(ids)) \o FragmentsOfAll(tree, Tail(ids))

\* tree.enumNodeFragments(parent, callback, true): the fragments of parent
\* and of the nodes below it.
enumNodeFragments(tree, parent) ==
    FragmentsOfAll(tree, <<parent>> \o enumNodeChildren(tree, parent))

\* ------------------------------------------------------------------- state
\* "load2" is a second call of load, made while the first is in flight.
Methods == {"Initialize", "load", "load2", "listNodes", "listLeafNodes", "listFragments"}
LoadMethods == {"load", "load2"}

VARIABLES
    ops,         \* per asynchronous method: the call in flight and its promise
    viewerNode,  \* last (document, viewable) handed to viewer.loadDocumentNode
    started,     \* viewers constructed and started by Initialize
    model,       \* viewer.model: null until the engine has loaded a model
    objectTree,  \* the model's object tree, once the engine has built it
    impl,        \* viewer.impl: the overlay scenes and how often each was created
    log,         \* the addCustomMesh/removeCustomMesh calls made, with their effect
    fragList,    \* the model's fragment list: auxiliary transform per fragment
    ret,         \* the last fragment-transform call and what it returned or threw
    push,        \* the enumerate* calls made: how each ended and what its callback saw
    lastLoad     \* the load whose onDocumentLoadSuccess ran last

overlayVars == <<impl, log>>
fragVars == <<fragList, ret>>
vars == <<ops, viewerNode, started, model, objectTree, impl, log, fragList, ret,
         push, lastLoad>>

NoOp == [tag |-> "none"]
NoNode == [tag |-> "none"]
NoModel == Null
NoTree == Null

Idle == \A m \in Methods : ops[m] = NoOp

PushMethods == {"enumerateNodes", "enumerateLeafNodes", "enumerateFragments"}
NoLoad == "none"

\* ---------------------------------------------------------------- promises
\* new Promise(function(resolve, reject) {...}): resolve and reject settle a
\* pending promise and do nothing to a settled one.
Settle(op, how, value) ==
    IF op.state = "pending"
    THEN [op EXCEPT !.state = how, !.value = value, !.settled = @ + 1]
    ELSE op

resolve(op, value) == Settle(op, "resolved", value)
reject(op, value) == Settle(op, "rejected", value)

\* A call in flight: its arguments, the engine request it made, the callbacks
\* the engine has invoked so far, and its promise.
NewOp(urn, given, sel, parent) ==
    [tag |-> "op", urn |-> urn, given |-> given, viewableId |-> sel,
     parentId |-> parent, request |-> DocumentRequest(urn),
     first |-> "none", calls |-> 0,
     state |-> "pending", value |-> Undefined, settled |-> 0, shown |-> {}]

\* The engine may still invoke a callback of method m's call.
Pending(m) == ops[m] # NoOp /\ ops[m].calls < MaxCallbacks

Called(op, which) ==
    [op EXCEPT !.calls = @ + 1,
               !.first = IF @ = "none" THEN which ELSE @]

\* -------------------------------------------------------------- Initialize
Initialize ==
    /\ ops["Initialize"] = NoOp
    /\ ops' = [ops EXCEPT !["Initialize"] = NewOp(BadUrn, Undefined, Undefined, Undefined)]
    /\ UNCHANGED <<push, lastLoad, viewerNode, started, model, objectTree, overlayVars, fragVars>>

\* The callback handed to Autodesk.Viewing.Initializer.
InitializerCallback ==
    /\ Pending("Initialize")
    /\ started' = started + 1
    /\ ops' = [ops EXCEPT !["Initialize"] =
                 Called(resolve(@, [tag |-> "Utilities", viewer |-> started + 1]),
                        "success")]
    /\ UNCHANGED <<push, lastLoad, viewerNode, model, objectTree, overlayVars, fragVars>>

\* -------------------------------------------------------------------- load
NotFound(viewableId) == [tag |-> "error", msg |-> "Viewable not found", id |-> viewableId]
LoadingError == [tag |-> "error", msg |-> "Document loading error", id |-> Undefined]

\* load(documentUrn, viewableId = 0)
load(documentUrn, viewableId) ==
    NewOp(documentUrn, viewableId,
          IF viewableId = Undefined THEN Num(0) ELSE viewableId, Undefined)

LoadCall(m) ==
    /\ ops[m] = NoOp
    /\ \E documentUrn \in Urns, viewableId \in Selectors :
          ops' = [ops EXCEPT ![m] = load(documentUrn, viewableId)]
    /\ UNCHANGED <<push, lastLoad, viewerNode, started, model, objectTree, overlayVars, fragVars>>

Load == LoadCall("load")
Load2 == LoadCall("load2")

\* onDocumentLoadSuccess indexing every viewable, the type filter forgotten.
onDocumentLoadSuccessUnfiltered(viewableId, doc) ==
    IF typeof(viewableId) = "string"
    THEN LET viewable == findByGuid(getRoot(doc), viewableId.v)
         IN  IF Truthy(viewable)
             THEN [show |-> {viewable}, how |-> "resolved", value |-> viewable]
             ELSE [show |-> {}, how |-> "rejected", value |-> NotFound(viewableId)]
    ELSE LET viewables == getRoot(doc)
         IN  IF viewableId.v < Len(viewables)
             THEN LET viewable == ArrayGet(viewables, viewableId.v)
                  IN  [show |-> {viewable}, how |-> "resolved", value |-> viewable]
             ELSE [show |-> {}, how |-> "rejected", value |-> NotFound(viewableId)]

\* onDocumentLoadSuccess looking a guid up among the geometry viewables only.
onDocumentLoadSuccessGeometryGuid(viewableId, doc) ==
    IF typeof(viewableId) = "string"
    THEN LET viewable == findByGuid(search(getRoot(doc), "geometry"), viewableId.v)
         IN  IF Truthy(viewable)
             THEN [show |-> {viewable}, how |-> "resolved", value |-> viewable]
             ELSE [show |-> {}, how |-> "rejected", value |-> NotFound(viewableId)]
    ELSE LET viewables == search(getRoot(doc), "geometry")
         IN  IF viewableId.v < Len(viewables)
             THEN LET viewable == ArrayGet(viewables, viewableId.v)
                  IN  [show |-> {viewable}, how |-> "resolved", value |-> viewable]
             ELSE [show |-> {}, how |-> "rejected", value |-> NotFound(viewableId)]

\* What onDocumentLoadSuccess(doc) does with the selector: the viewable it
\* hands to viewer.loadDocumentNode and the settlement it asks for.
onDocumentLoadSuccess(viewableId, doc) ==
    IF typeof(viewableId) = "string"
    THEN LET viewable == findByGuid(getRoot(doc), viewableId.v)
         IN  IF Truthy(viewable)
             THEN [show |-> {viewable}, how |-> "resolved", value |-> viewable]
             ELSE [show |-> {}, how |-> "rejected", value |-> NotFound(viewableId)]
    ELSE LET viewables == search(getRoot(doc), "geometry")
         IN  IF viewableId.v < Len(viewables)
             THEN LET viewable == ArrayGet(viewables, viewableId.v)
                  IN  [show |-> {viewable}, how |-> "resolved", value |-> viewable]
             ELSE [show |-> {}, how |-> "rejected", value |-> NotFound(viewableId)]

\* onDocumentLoadSuccess reading the selector from a place the calls share:
\* it sees the selector of the other call once that call has been made.
DocumentLoadSuccessSharedSelector(m) ==
    /\ Pending(m)
    /\ RequestedDocument(ops[m].request) # BadUrn
    /\ LET doc == RequestedDocument(ops[m].request)
           other == CHOOSE o \in LoadMethods : o # m
           sel == IF ops[other] # NoOp THEN ops[other].viewableId
                  ELSE ops[m].viewableId
           r == onDocumentLoadSuccess(sel, doc)
       IN  /\ ops' = [ops EXCEPT ![m] =
                        [Called(Settle(@, r.how, r.value), "success")
                           EXCEPT !.shown = @ \cup r.show]]
           /\ viewerNode' = IF r.show = {} THEN viewerNode
                            ELSE [tag |-> "node", doc |-> doc,
                                  viewable |-> CHOOSE v \in r.show : TRUE]
    /\ lastLoad' = m
    /\ UNCHANGED <<push, started, model, objectTree, overlayVars, fragVars>>

\* The engine invokes onDocumentLoadSuccess(doc) of the load call m: the
\* closure holds that call's viewableId, resolve and reject.
DocumentLoadSuccessOf(m) ==
    /\ Pending(m)
    /\ RequestedDocument(ops[m].request) # BadUrn
    /\ LET doc == RequestedDocument(ops[m].request)
           r == onDocumentLoadSuccess(ops[m].viewableId, doc)
       IN  /\ ops' = [ops EXCEPT ![m] =
                        [Called(Settle(@, r.how, r.value), "success")
                           EXCEPT !.shown = @ \cup r.show]]
           /\ viewerNode' = IF r.show = {} THEN viewerNode
                            ELSE [tag |-> "node", doc |-> doc,
                                  viewable |-> CHOOSE v \in r.show : TRUE]
    /\ lastLoad' = m
    /\ UNCHANGED <<push, started, model, objectTree, overlayVars, fragVars>>

DocumentLoadSuccess == DocumentLoadSuccessOf("load")

\* The engine invokes onDocumentLoadError(errorCode, errorMsg) of the call m.
DocumentLoadErrorOf(m) ==
    /\ Pending(m)
    /\ ops' = [ops EXCEPT ![m] = Called(reject(@, LoadingError), "error")]
    /\ UNCHANGED <<push, lastLoad, viewerNode, started, model, objectTree, overlayVars, fragVars>>

\* onDocumentLoadError that forgets to reject.
DocumentLoadErrorDropped ==
    /\ Pending("load")
    /\ ops' = [ops EXCEPT !["load"] = Called(@, "error")]
    /\ UNCHANGED <<push, lastLoad, viewerNode, started, model, objectTree, overlayVars, fragVars>>

\* onDocumentLoadError(errorCode, errorMsg)
DocumentLoadError == DocumentLoadErrorOf("load")

\* ------------------------------------------------- the model and its tree
\* The engine finishes loading a model: viewer.model is set.
ModelLoaded ==
    /\ model = NoModel
    /\ model' = [tag |-> "model"]
    /\ UNCHANGED <<push, lastLoad, ops, viewerNode, started, objectTree, overlayVars, fragVars>>

\* The engine finishes building the object tree of the loaded model.
ObjectTreeCreated ==
    /\ model # NoModel
    /\ objectTree = NoTree
    /\ \E tree \in Trees : objectTree' = [tag |-> "tree", tree |-> tree]
    /\ UNCHANGED <<push, lastLoad, ops, viewerNode, started, model, overlayVars, fragVars>>

\* ------------------------------------- listNodes, listLeafNodes, listFragments
StartList(m) ==
    /\ ops[m] = NoOp
    /\ \E parentId \in ParentIds :
          ops' = [ops EXCEPT ![m] = NewOp(BadUrn, Undefined, Undefined, parentId)]
    /\ UNCHANGED <<push, lastLoad, viewerNode, started, model, objectTree, overlayVars, fragVars>>

ListNodes == StartList("listNodes")
ListLeafNodes == StartList("listLeafNodes")
ListFragments == StartList("listFragments")

\* The default parent left undefined: no node of the tree has that id.
ParentOrRootOmitted(parentId, tree) ==
    IF typeof(parentId) = "undefined" THEN -1 ELSE parentId.v

\* if (typeof parentId === 'undefined') parentId = tree.getRootId();
ParentOrRoot(parentId, tree) ==
    IF typeof(parentId) = "undefined" THEN getRootId(tree) ELSE parentId.v

\* onSuccess(tree) of listNodes: every id the traversal reports is pushed.
listNodes(parentId, tree) ==
    SelectSeq(enumNodeChildren(tree, ParentOrRoot(parentId, tree)), LAMBDA id : TRUE)

\* listLeafNodes testing the child count of the parent, not of the visited id.
listLeafNodesOfParent(parentId, tree) ==
    SelectSeq(enumNodeChildren(tree, ParentOrRoot(parentId, tree)),
              LAMBDA id : getChildCount(tree, ParentOrRoot(parentId, tree)) = 0)

\* onSuccess(tree) of listLeafNodes: an id is pushed if it has no children.
listLeafNodes(parentId, tree) ==
    SelectSeq(enumNodeChildren(tree, ParentOrRoot(parentId, tree)),
              LAMBDA id : getChildCount(tree, id) = 0)

\* listFragments collecting the nodes below the parent, not their fragments.
listFragmentsOfNodes(parentId, tree) ==
    SelectSeq(enumNodeChildren(tree, ParentOrRoot(parentId, tree)), LAMBDA id : TRUE)

\* onSuccess(tree) of listFragments.
listFragments(parentId, tree) ==
    SelectSeq(enumNodeFragments(tree, ParentOrRoot(parentId, tree)), LAMBDA id : TRUE)

ListResult(m, parentId, tree) ==
    CASE m = "listNodes" -> listNodes(parentId, tree)
      [] m = "listLeafNodes" -> listLeafNodes(parentId, tree)
      [] m = "listFragments" -> listFragments(parentId, tree)

\* viewer.getObjectTree invokes onSuccess(tree) once the tree is built.
ObjectTreeSuccess(m) ==
    /\ Pending(m)
    /\ objectTree # NoTree
    /\ ops' = [ops EXCEPT ![m] =
                 Called(resolve(@, List(ListResult(m, @.parentId, objectTree.tree))),
                        "success")]
    /\ UNCHANGED <<push, lastLoad, viewerNode, started, model, objectTree, overlayVars, fragVars>>

\* viewer.getObjectTree invokes onError(err).
TreeError == [tag |-> "error", msg |-> "no object tree", id |-> Undefined]

ObjectTreeError(m) ==
    /\ Pending(m)
    /\ ops' = [ops EXCEPT ![m] = Called(reject(@, TreeError), "error")]
    /\ UNCHANGED <<push, lastLoad, viewerNode, started, model, objectTree, overlayVars, fragVars>>

ListMethods == {"listNodes", "listLeafNodes", "listFragments"}

\* ----------------------- enumerateNodes, enumerateLeafNodes, enumerateFragments
\* onSuccess(tree) of enumerateNodes: the ids the callback is called with.
enumerateNodes(parent, tree) ==
    SelectSeq(enumNodeChildren(tree, ParentOrRoot(parent, tree)), LAMBDA id : TRUE)

\* onSuccess(_tree) of enumerateLeafNodes: onNode passes on the childless ids.
enumerateLeafNodes(parent, tree) ==
    SelectSeq(enumNodeChildren(tree, ParentOrRoot(parent, tree)),
              LAMBDA id : getChildCount(tree, id) = 0)

\* onSuccess(tree) of enumerateFragments.
enumerateFragments(parent, tree) ==
    SelectSeq(enumNodeFragments(tree, ParentOrRoot(parent, tree)), LAMBDA id : TRUE)

EnumResult(m, parent, tree) ==
    CASE m = "enumerateNodes" -> enumerateNodes(parent, tree)
      [] m = "enumerateLeafNodes" -> enumerateLeafNodes(parent, tree)
      [] m = "enumerateFragments" -> enumerateFragments(parent, tree)

\* A push-form call: how it ended for its caller, the callbacks of
\* getObjectTree invoked so far, the ids its callback was called with, and
\* the errors thrown by onError in a turn of the engine, outside the call.
NewCall(parent) ==
    [tag |-> "call", parent |-> parent, ended |-> "returned",
     first |-> "none", calls |-> 0, during |-> FALSE, seen |-> <<>>, uncaught |-> 0]

\* onSuccess(tree): the traversal calls the callback id by id.
onSuccess(m, call, tree) ==
    [call EXCEPT !.calls = @ + 1,
                 !.first = IF @ = "none" THEN "success" ELSE @,
                 !.seen = @ \o EnumResult(m, call.parent, tree)]

\* onError(err) { throw new Error(err); } with the call still on the stack:
\* the error leaves getObjectTree and the method, and reaches the caller.
onErrorDuringCall(call) ==
    [call EXCEPT !.calls = @ + 1,
                 !.first = IF @ = "none" THEN "error" ELSE @,
                 !.ended = "threw"]

\* onError(err) { throw new Error(err); } in a later turn of the engine: the
\* method has returned, the error is thrown into the engine's turn.
onErrorLater(call) ==
    [call EXCEPT !.calls = @ + 1,
                 !.first = IF @ = "none" THEN "error" ELSE @,
                 !.uncaught = @ + 1]

\* this.viewer.getObjectTree(onSuccess, onError): the engine invokes a
\* callback before it returns, or keeps both for a later turn.
Enumerate(m) ==
    /\ push[m] = NoOp
    /\ \E parent \in ParentIds :
          \/ /\ objectTree # NoTree
             /\ push' = [push EXCEPT ![m] =
                           [onSuccess(m, NewCall(parent), objectTree.tree)
                              EXCEPT !.during = TRUE]]
          \/ push' = [push EXCEPT ![m] =
                        [onErrorDuringCall(NewCall(parent)) EXCEPT !.during = TRUE]]
          \/ push' = [push EXCEPT ![m] = NewCall(parent)]
    /\ UNCHANGED <<lastLoad, ops, viewerNode, started, model, objectTree,
                   overlayVars, fragVars>>

EnumerateNodes == Enumerate("enumerateNodes")
EnumerateLeafNodes == Enumerate("enumerateLeafNodes")
EnumerateFragments == Enumerate("enumerateFragments")

\* The engine may still invoke a callback of the push-form call m.
Waiting(m) == push[m] # NoOp /\ push[m].calls < MaxCallbacks

\* The engine invokes onSuccess(tree) in a later turn.
EnumerateSuccess(m) ==
    /\ Waiting(m)
    /\ objectTree # NoTree
    /\ push' = [push EXCEPT ![m] = onSuccess(m, @, objectTree.tree)]
    /\ UNCHANGED <<lastLoad, ops, viewerNode, started, model, objectTree,
                   overlayVars, fragVars>>

\* The engine invokes onError(err) in a later turn.
EnumerateError(m) ==
    /\ Waiting(m)
    /\ push' = [push EXCEPT ![m] = onErrorLater(@)]
    /\ UNCHANGED <<lastLoad, ops, viewerNode, started, model, objectTree,
                   overlayVars, fragVars>>

\* ------------------------------------------------------------ overlay meshes
OverlayNames == {"UtilitiesOverlay", "myOverlay"}
OverlayArgs == {Undefined} \cup {Str(n) : n \in OverlayNames}
Meshes == {"mesh1", "mesh2"}
NoScene == Undefined

\* impl.overlayScenes[name] holds a scene.
HasScene(i, name) == Truthy(i.overlayScenes[name])

\* impl.createOverlayScene(name): a new, empty scene under that name.
createOverlayScene(i, name) ==
    [overlayScenes |-> [i.overlayScenes EXCEPT ![name] = [tag |-> "scene", meshes |-> {}]],
     created |-> [i.created EXCEPT ![name] = @ + 1]]

\* impl.addOverlay(name, mesh): the mesh joins the scene's render list.
addOverlay(i, name, mesh) ==
    IF HasScene(i, name)
    THEN [i EXCEPT !.overlayScenes[name].meshes = @ \cup {mesh}]
    ELSE i

\* impl.removeOverlay(name, mesh): the mesh leaves the scene's render list;
\* a mesh that is not in it is ignored.
removeOverlay(i, name, mesh) ==
    IF HasScene(i, name)
    THEN [i EXCEPT !.overlayScenes[name].meshes = @ \ {mesh}]
    ELSE i

\* addOverlay and removeOverlay fail on a name that has no scene.
NoSuchScene(i, name) == ~HasScene(i, name)

\* overlay = 'UtilitiesOverlay'
OverlayOrDefault(overlay) ==
    IF typeof(overlay) = "undefined" THEN "UtilitiesOverlay" ELSE overlay.v

\* addCustomMesh creating the scene anew on every call.
addCustomMeshRecreating(i, mesh, overlay) ==
    LET name == OverlayOrDefault(overlay)
        i1 == createOverlayScene(i, name)
    IN  [impl |-> addOverlay(i1, name, mesh), error |-> NoSuchScene(i1, name)]

\* addCustomMesh(mesh, overlay = 'UtilitiesOverlay')
addCustomMesh(i, mesh, overlay) ==
    LET name == OverlayOrDefault(overlay)
        i1 == IF ~HasScene(i, name) THEN createOverlayScene(i, name) ELSE i
    IN  [impl |-> addOverlay(i1, name, mesh), error |-> NoSuchScene(i1, name)]

\* removeCustomMesh creating the scene anew on every call.
removeCustomMeshRecreating(i, mesh, overlay) ==
    LET name == OverlayOrDefault(overlay)
        i1 == createOverlayScene(i, name)
    IN  [impl |-> removeOverlay(i1, name, mesh), error |-> NoSuchScene(i1, name)]

\* removeCustomMesh removing from the default overlay whatever name is given.
removeCustomMeshDefaultOnly(i, mesh, overlay) ==
    LET name == "UtilitiesOverlay"
        i1 == IF ~HasScene(i, name) THEN createOverlayScene(i, name) ELSE i
    IN  [impl |-> removeOverlay(i1, name, mesh), error |-> NoSuchScene(i1, name)]

\* removeCustomMesh(mesh, overlay = 'UtilitiesOverlay')
removeCustomMesh(i, mesh, overlay) ==
    LET name == OverlayOrDefault(overlay)
        i1 == IF ~HasScene(i, name) THEN createOverlayScene(i, name) ELSE i
    IN  [impl |-> removeOverlay(i1, name, mesh), error |-> NoSuchScene(i1, name)]

MeshCall(method, mesh, overlay, r) ==
    [method |-> method, mesh |-> mesh, overlay |-> OverlayOrDefault(overlay),
     before |-> impl.overlayScenes, after |-> r.impl.overlayScenes, error |-> r.error]

AddCustomMesh ==
    /\ Len(log) < MaxMeshCalls
    /\ \E mesh \in Meshes, overlay \in OverlayArgs :
          LET r == addCustomMesh(impl, mesh, overlay)
          IN  /\ impl' = r.impl
              /\ log' = Append(log, MeshCall("add", mesh, overlay, r))
    /\ UNCHANGED <<push, lastLoad, ops, viewerNode, started, model, objectTree, fragVars>>

RemoveCustomMesh ==
    /\ Len(log) < MaxMeshCalls
    /\ \E mesh \in Meshes, overlay \in OverlayArgs :
          LET r == removeCustomMesh(impl, mesh, overlay)
          IN  /\ impl' = r.impl
              /\ log' = Append(log, MeshCall("remove", mesh, overlay, r))
    /\ UNCHANGED <<push, lastLoad, ops, viewerNode, started, model, objectTree, fragVars>>

\* ------------------------------------------------------ fragment transforms
FragIds == 1..MaxFrags
TransformValues == {"identity", "other"}
IdentityTransform ==
    [scale |-> "identity", rotation |-> "identity", position |-> "identity"]

\* An optional scale, rotation or position argument: omitted, null or a value.
Vec(x) == [tag |-> "object", v |-> x]
ComponentArgs == {Undefined, Null} \cup {Vec(x) : x \in TransformValues}

\* frags.getOriginalWorldMatrix(fragId, m): the transform loaded with the model.
getOriginalWorldMatrix(frags, fragId) ==
    [tag |-> "matrix", orig |-> fragId, aux |-> IdentityTransform]

\* frags.getWorldMatrix(fragId, m): the original transform with the auxiliary
\* one applied on top.
getWorldMatrix(frags, fragId) ==
    [tag |-> "matrix", orig |-> fragId, aux |-> frags[fragId]]

\* frags.getWorldBounds(fragId, box): the bounds under the final transform.
getWorldBounds(frags, fragId) == [tag |-> "box", of |-> getWorldMatrix(frags, fragId)]

\* frags.getAnimTransform(fragId, scale, rotation, position)
getAnimTransform(frags, fragId) == frags[fragId]

\* frags.updateAnimTransform(fragId, scale, rotation, position): a component
\* that is not given keeps its value.
updateAnimTransform(frags, fragId, scale, rotation, position) ==
    [frags EXCEPT ![fragId] =
        [scale |-> IF Truthy(scale) THEN scale.v ELSE @.scale,
         rotation |-> IF Truthy(rotation) THEN rotation.v ELSE @.rotation,
         position |-> IF Truthy(position) THEN position.v ELSE @.position]]

\* throw new Error('Fragments not yet available. ...')
NotAvailable == "Fragments not yet available"
Throw(frags, error) ==
    [outcome |-> error, value |-> Undefined, called |-> FALSE, frags |-> frags]
Return(frags, value) ==
    [outcome |-> "ok", value |-> value, called |-> TRUE, frags |-> frags]

\* getFragmentBounds(fragId)
getFragmentBounds(m, frags, fragId) ==
    IF ~Truthy(m) THEN Throw(frags, NotAvailable)
    ELSE Return(frags, getWorldBounds(frags, fragId))

\* getFragmentOrigTransform(fragId)
getFragmentOrigTransform(m, frags, fragId) ==
    IF ~Truthy(m) THEN Throw(frags, NotAvailable)
    ELSE Return(frags, getOriginalWorldMatrix(frags, fragId))

\* getFragmentAuxTransform(fragId, scale, rotation, position)
getFragmentAuxTransform(m, frags, fragId) ==
    IF ~Truthy(m) THEN Throw(frags, NotAvailable)
    ELSE Return(frags, getAnimTransform(frags, fragId))

\* An omitted component replaced by the identity before the engine is called.
OrIdentity(x) == IF Truthy(x) THEN x ELSE Vec("identity")
setFragmentAuxTransformResetting(m, frags, fragId, scale, rotation, position) ==
    IF ~Truthy(m) THEN Throw(frags, NotAvailable)
    ELSE Return(updateAnimTransform(frags, fragId, OrIdentity(scale),
                                    OrIdentity(rotation), OrIdentity(position)),
                Undefined)

\* setFragmentAuxTransform(fragId, scale, rotation, position)
setFragmentAuxTransform(m, frags, fragId, scale, rotation, position) ==
    IF ~Truthy(m) THEN Throw(frags, NotAvailable)
    ELSE Return(updateAnimTransform(frags, fragId, scale, rotation, position),
                Undefined)

\* getFragmentTransform with the model check left out: reading the fragment
\* list of a null model is a TypeError.
getFragmentTransformUnguarded(m, frags, fragId) ==
    IF ~Truthy(m) THEN Throw(frags, "TypeError")
    ELSE Return(frags, getWorldMatrix(frags, fragId))

\* getFragmentTransform(fragId)
getFragmentTransform(m, frags, fragId) ==
    IF ~Truthy(m) THEN Throw(frags, NotAvailable)
    ELSE Return(frags, getWorldMatrix(frags, fragId))

NoCall == [tag |-> "none"]
NoArgs == [scale |-> Undefined, rotation |-> Undefined, position |-> Undefined]

FragCall(method, fragId, args, r) ==
    [tag |-> "call", method |-> method, fragId |-> fragId, args |-> args,
     loaded |-> Truthy(model), before |-> fragList,
     outcome |-> r.outcome, value |-> r.value, called |-> r.called]

Getter(method, r, fragId) ==
    /\ fragList' = r.frags
    /\ ret' = FragCall(method, fragId, NoArgs, r)
    /\ UNCHANGED <<push, lastLoad, ops, viewerNode, started, model, objectTree, overlayVars>>

GetFragmentBounds ==
    \E fragId \in FragIds :
        Getter("getFragmentBounds", getFragmentBounds(model, fragList, fragId), fragId)

GetFragmentOrigTransform ==
    \E fragId \in FragIds :
        Getter("getFragmentOrigTransform",
               getFragmentOrigTransform(model, fragList, fragId), fragId)

GetFragmentAuxTransform ==
    \E fragId \in FragIds :
        Getter("getFragmentAuxTransform",
               getFragmentAuxTransform(model, fragList, fragId), fragId)

GetFragmentTransform ==
    \E fragId \in FragIds :
        Getter("getFragmentTransform", getFragmentTransform(model, fragList, fragId), fragId)

SetFragmentAuxTransform ==
    /\ \E fragId \in FragIds, scale \in ComponentArgs, rotation \in ComponentArgs,
          position \in ComponentArgs :
          LET r == setFragmentAuxTransform(model, fragList, fragId, scale, rotation, position)
          IN  /\ fragList' = r.frags
              /\ ret' = FragCall("setFragmentAuxTransform", fragId,
                                 [scale |-> scale, rotation |-> rotation,
                                  position |-> position], r)
    /\ UNCHANGED <<push, lastLoad, ops, viewerNode, started, model, objectTree, overlayVars>>

\* ---------------------------------------------------------- specifications
Init ==
    /\ ops = [m \in Methods |-> NoOp]
    /\ viewerNode = NoNode
    /\ started = 0
    /\ model = NoModel
    /\ objectTree = NoTree
    /\ impl = [overlayScenes |-> [n \in OverlayNames |-> NoScene],
               created |-> [n \in OverlayNames |-> 0]]
    /\ log = <<>>
    /\ fragList = [f \in FragIds |-> IdentityTransform]
    /\ ret = NoCall
    /\ push = [m \in PushMethods |-> NoOp]
    /\ lastLoad = NoLoad

\* Document loading.
NextLoad ==
    \/ Load
    \/ DocumentLoadSuccess
    \/ DocumentLoadError

SpecLoad == Init /\ [][NextLoad]_vars

\* Node enumeration over a loaded model.
NextTree ==
    \/ ModelLoaded
    \/ ObjectTreeCreated
    \/ ListNodes
    \/ ListLeafNodes
    \/ \E m \in {"listNodes", "listLeafNodes"} : ObjectTreeSuccess(m)
    \/ \E m \in {"listNodes", "listLeafNodes"} : ObjectTreeError(m)

SpecTree == Init /\ [][NextTree]_vars

\* One push-form enumeration at a time.
NoCallYet == \A m \in PushMethods : push[m] = NoOp

NextPush ==
    \/ ModelLoaded
    \/ ObjectTreeCreated
    \/ NoCallYet /\ EnumerateNodes
    \/ NoCallYet /\ EnumerateLeafNodes
    \/ NoCallYet /\ EnumerateFragments
    \/ \E m \in PushMethods : EnumerateSuccess(m)
    \/ \E m \in PushMethods : EnumerateError(m)

SpecPush == Init /\ [][NextPush]_vars

\* A pull-form enumeration next to its push-form counterpart, both called
\* with the same parent.
PushOf(m) ==
    CASE m = "listNodes" -> "enumerateNodes"
      [] m = "listLeafNodes" -> "enumerateLeafNodes"
      [] m = "listFragments" -> "enumerateFragments"

OnlyKind(m) ==
    \A o \in ListMethods \ {m} : ops[o] = NoOp /\ push[PushOf(o)] = NoOp

SameParent(m) ==
    (ops[m] # NoOp /\ push[PushOf(m)] # NoOp)
       => ops[m].parentId = push[PushOf(m)].parent

NextEnum ==
    \/ ModelLoaded
    \/ ObjectTreeCreated
    \/ \E m \in ListMethods : OnlyKind(m) /\ StartList(m) /\ SameParent(m)'
    \/ \E m \in ListMethods : OnlyKind(m) /\ Enumerate(PushOf(m)) /\ SameParent(m)'
    \/ \E m \in ListMethods : ObjectTreeSuccess(m)
    \/ \E m \in ListMethods : ObjectTreeError(m)
    \/ \E m \in PushMethods : EnumerateSuccess(m)
    \/ \E m \in PushMethods : EnumerateError(m)

SpecEnum == Init /\ [][NextEnum]_vars

\* Two overlapping loads: both calls are made before the engine answers
\* either, and the engine answers each once, in any order.
Overlapping == \A m \in LoadMethods : ops[m] # NoOp
Unanswered(m) == ops[m] # NoOp /\ ops[m].calls = 0

NextRace ==
    \/ Load
    \/ Load2
    \/ \E m \in LoadMethods : Overlapping /\ Unanswered(m) /\ DocumentLoadSuccessOf(m)
    \/ \E m \in LoadMethods : Overlapping /\ Unanswered(m) /\ DocumentLoadErrorOf(m)

SpecRace == Init /\ [][NextRace]_vars

\* One asynchronous call of any kind; the engine answers every call.
NextAsync ==
    \/ Idle /\ Initialize
    \/ Idle /\ Load
    \/ Idle /\ ListNodes
    \/ Idle /\ ListLeafNodes
    \/ Idle /\ ListFragments
    \/ ModelLoaded
    \/ ObjectTreeCreated
    \/ InitializerCallback
    \/ DocumentLoadSuccess
    \/ DocumentLoadError
    \/ \E m \in ListMethods : ObjectTreeSuccess(m)
    \/ \E m \in ListMethods : ObjectTreeError(m)

\* The engine invokes a callback of the call in flight at least once.  (An
\* onSuccess of getObjectTree answers a call too: as its onError can be invoked
\* in every state, fairness of the steps below says that no call stays
\* unanswered, by whichever callback.)
Answer ==
    /\ \E m \in Methods : ops[m] # NoOp /\ ops[m].calls = 0
    /\ \/ InitializerCallback
       \/ DocumentLoadSuccess
       \/ DocumentLoadError
       \/ \E m \in ListMethods : ObjectTreeError(m)

SpecAsync == Init /\ [][NextAsync]_vars /\ WF_vars(Answer)

\* Overlay meshes.
NextOverlay ==
    \/ AddCustomMesh
    \/ RemoveCustomMesh

SpecOverlay == Init /\ [][NextOverlay]_vars

\* Fragment transforms, before and after the model is loaded.
NextFrag ==
    \/ ModelLoaded
    \/ GetFragmentBounds
    \/ GetFragmentOrigTransform
    \/ GetFragmentAuxTransform
    \/ SetFragmentAuxTransform
    \/ GetFragmentTransform

SpecFrag == Init /\ [][NextFrag]_vars

\* The whole wrapper.
Next ==
    \/ Initialize
    \/ InitializerCallback
    \/ NextLoad
    \/ NextTree
    \/ ListFragments
    \/ ObjectTreeSuccess("listFragments")
    \/ ObjectTreeError("listFragments")
    \/ Load2
    \/ DocumentLoadSuccessOf("load2")
    \/ DocumentLoadErrorOf("load2")
    \/ EnumerateNodes
    \/ EnumerateLeafNodes
    \/ EnumerateFragments
    \/ \E m \in PushMethods : EnumerateSuccess(m)
    \/ \E m \in PushMethods : EnumerateError(m)
    \/ NextOverlay
    \/ NextFrag

Spec == Init /\ [][Next]_vars

GeometryPositions(doc) == {k \in 1..Len(doc) : doc[k] = "geometry"}
NthGeometry(doc, i) ==
    CHOOSE k \in GeometryPositions(doc) :
        Cardinality({j \in GeometryPositions(doc) : j < k}) = i
GivenIndex(given) == IF given = Undefined THEN 0 ELSE given.v

\* The load's document was loaded: the engine reported success.
DocumentLoaded == ops["load"] # NoOp /\ ops["load"].first = "success"

IndexInRange ==
    /\ typeof(ops["load"].given) \in {"number", "undefined"}
    /\ GivenIndex(ops["load"].given) \in
          0..(Cardinality(GeometryPositions(ops["load"].urn)) - 1)

GuidInDocument ==
    /\ typeof(ops["load"].given) = "string"
    /\ \E k \in 1..Len(ops["load"].urn) : GuidNames[k] = ops["load"].given.v

Displayed(v) ==
    /\ ops["load"].shown = {v}
    /\ viewerNode = [tag |-> "node", doc |-> ops["load"].urn, viewable |-> v]

\* C2 (SpecLoad): a load of a successfully loaded document with an index i
\* within the count of geometry viewables (i = 0 when omitted) displays, and
\* resolves with, the i-th geometry viewable in document order.
C2_IndexSelectsViewable ==
    (DocumentLoaded /\ IndexInRange)
       => LET v == Viewable(ops["load"].urn,
                            NthGeometry(ops["load"].urn, GivenIndex(ops["load"].given)))
          IN  /\ ops["load"].state = "resolved"
              /\ ops["load"].value = v
              /\ Displayed(v)

\* An index resolved to a viewable that is not at that position of the
\* unfiltered document.
C2_Witness ==
    /\ DocumentLoaded /\ IndexInRange
    /\ ops["load"].state = "resolved"
    /\ ops["load"].value.id # GivenIndex(ops["load"].given) + 1

\* C3 (SpecLoad): a load of a successfully loaded document with the guid of
\* one of its viewables displays, and resolves with, the viewable of that guid.
C3_GuidSelectsViewable ==
    (DocumentLoaded /\ GuidInDocument)
       => LET k == CHOOSE j \in 1..Len(ops["load"].urn) :
                      GuidNames[j] = ops["load"].given.v
              v == Viewable(ops["load"].urn, k)
          IN  /\ ops["load"].state = "resolved"
              /\ ops["load"].value = v
              /\ Displayed(v)

\* A guid resolved to a viewable that is not of geometry type.
C3_Witness ==
    /\ DocumentLoaded /\ GuidInDocument
    /\ ops["load"].state = "resolved"
    /\ ops["load"].value.type # "geometry"

\* C4 (SpecLoad): a load whose selector cannot be resolved against the loaded
\* document (guid absent, index out of bounds) rejects and displays nothing.
C4_UnresolvableRejects ==
    (DocumentLoaded /\ ~IndexInRange /\ ~GuidInDocument)
       => /\ ops["load"].state = "rejected"
          /\ ops["load"].shown = {}
          /\ viewerNode = NoNode

\* The fragment-transform call that was made last.
Supplied(x) == x \notin {Undefined, Null}
SetCall == ret # NoCall /\ ret.method = "setFragmentAuxTransform"

\* C5 (SpecFrag): a fragment-transform operation called while no model is
\* loaded fails with "fragments not yet available", without calling into the
\* fragment list or changing a transform; called with a model loaded it
\* succeeds.
C5_FragmentsNeedModel ==
    ret # NoCall
       => IF ret.loaded
          THEN ret.outcome = "ok" /\ ret.called
          ELSE /\ ret.outcome = "Fragments not yet available"
               /\ ~ret.called
               /\ fragList = ret.before

\* A transform was set with no model loaded, and the model was loaded since.
C5_Witness ==
    /\ SetCall
    /\ ~ret.loaded
    /\ Supplied(ret.args.position)
    /\ model # NoModel

\* C6 (SpecFrag): after setFragmentAuxTransform, every component that was not
\* supplied reads back from getFragmentAuxTransform as before the call, and
\* every other fragment's auxiliary transform is as before.
C6_PartialUpdate ==
    (SetCall /\ ret.outcome = "ok")
       => LET now == getFragmentAuxTransform(model, fragList, ret.fragId).value
              was == ret.before[ret.fragId]
          IN  /\ ~Supplied(ret.args.scale) => now.scale = was.scale
              /\ ~Supplied(ret.args.rotation) => now.rotation = was.rotation
              /\ ~Supplied(ret.args.position) => now.position = was.position
              /\ \A g \in FragIds \ {ret.fragId} : fragList[g] = ret.before[g]

\* Only the position was supplied, to a fragment whose scale and rotation had
\* been changed before; the position moved.
C6_Witness ==
    /\ SetCall /\ ret.outcome = "ok"
    /\ ~Supplied(ret.args.scale) /\ ~Supplied(ret.args.rotation)
    /\ Supplied(ret.args.position)
    /\ ret.before[ret.fragId].scale = "other"
    /\ ret.before[ret.fragId].rotation = "other"
    /\ fragList[ret.fragId].position # ret.before[ret.fragId].position

\* The mesh set of an overlay: empty while the overlay has no scene.
MeshSet(scenes, n) == IF Truthy(scenes[n]) THEN scenes[n].meshes ELSE {}

\* Call k added a mesh and call k + 1 removed the same mesh from the same overlay.
RoundTrip(k) ==
    /\ log[k].method = "add"
    /\ log[k + 1].method = "remove"
    /\ log[k + 1].mesh = log[k].mesh
    /\ log[k + 1].overlay = log[k].overlay

\* C7 as claimed (SpecOverlay): an add followed by the remove of the same mesh
\* and overlay leaves the overlay's mesh set as it was before the add.
C7_RoundTripAlways ==
    \A k \in 1..(Len(log) - 1) :
        RoundTrip(k)
           => MeshSet(log[k + 1].after, log[k].overlay)
                 = MeshSet(log[k].before, log[k].overlay)

\* C7 as amended (SpecOverlay): the same, for a mesh that was not in the
\* overlay before the add.
C7_RoundTripOfNewMesh ==
    \A k \in 1..(Len(log) - 1) :
        (RoundTrip(k) /\ log[k].mesh \notin MeshSet(log[k].before, log[k].overlay))
           => MeshSet(log[k + 1].after, log[k].overlay)
                 = MeshSet(log[k].before, log[k].overlay)

\* A new mesh was added to, and removed from, an overlay holding another mesh.
C7_Witness ==
    \E k \in 1..(Len(log) - 1) :
        /\ RoundTrip(k)
        /\ log[k].mesh \notin MeshSet(log[k].before, log[k].overlay)
        /\ MeshSet(log[k].before, log[k].overlay) # {}
        /\ log[k].overlay # "UtilitiesOverlay"

\* Call k removed a mesh that was not in the named overlay.
RemovedNonMember(k) ==
    /\ log[k].method = "remove"
    /\ log[k].mesh \notin MeshSet(log[k].before, log[k].overlay)

\* C8 as claimed (SpecOverlay): removing a mesh that is not in the named
\* overlay raises no error and leaves the overlay scenes as they were.
C8_RemoveNonMemberNoOp ==
    \A k \in 1..Len(log) :
        RemovedNonMember(k) => (~log[k].error /\ log[k].after = log[k].before)

\* C8 as amended (SpecOverlay): it raises no error and leaves every overlay's
\* mesh set as it was; the one change it can make is to create the named
\* overlay's scene, empty, when there was none.
C8_RemoveNonMemberKeepsMeshes ==
    \A k \in 1..Len(log) :
        RemovedNonMember(k)
           => /\ ~log[k].error
              /\ \A n \in OverlayNames :
                    /\ MeshSet(log[k].after, n) = MeshSet(log[k].before, n)
                    /\ (n # log[k].overlay \/ Truthy(log[k].before[n]))
                          => log[k].after[n] = log[k].before[n]
              /\ Truthy(log[k].after[log[k].overlay])

\* A mesh was removed from an overlay that held only another mesh.
C8_Witness ==
    \E k \in 1..Len(log) :
        /\ RemovedNonMember(k)
        /\ MeshSet(log[k].before, log[k].overlay) # {}

\* The step removes mesh m from overlay n.
Removes(m, n) ==
    /\ log' # log
    /\ log'[Len(log')].method = "remove"
    /\ log'[Len(log')].mesh = m
    /\ log'[Len(log')].overlay = n

\* C9 (SpecOverlay): an overlay scene is created at most once per name, and
\* only when that name has no scene; a scene that exists stays, and a mesh in
\* it leaves it only by a removeCustomMesh of that mesh from that overlay.
C9_SceneCreatedOnce ==
    /\ [](\A n \in OverlayNames : impl.created[n] <= 1)
    /\ [][\A n \in OverlayNames :
            /\ impl'.created[n] > impl.created[n] => ~HasScene(impl, n)
            /\ HasScene(impl, n)
                  => /\ HasScene(impl', n)
                     /\ \A m \in impl.overlayScenes[n].meshes :
                           m \in impl'.overlayScenes[n].meshes \/ Removes(m, n)]_vars

\* A second mesh was added to an overlay that already held one.
C9_Witness ==
    \E k \in 1..Len(log) :
        /\ log[k].method = "add"
        /\ MeshSet(log[k].before, log[k].overlay) # {}
        /\ Cardinality(MeshSet(log[k].after, log[k].overlay)) = 2
        /\ impl.created[log[k].overlay] = 1

\* C10 (SpecTree): on the same tree and parent, listLeafNodes resolves with
\* the subsequence of listNodes' ids that have no child in the tree.
C10_LeavesAreChildlessNodes ==
    (/\ ops["listNodes"] # NoOp /\ ops["listLeafNodes"] # NoOp
     /\ ops["listNodes"].state = "resolved"
     /\ ops["listLeafNodes"].state = "resolved"
     /\ ops["listNodes"].parentId = ops["listLeafNodes"].parentId)
       => ops["listLeafNodes"].value.v =
             SelectSeq(ops["listNodes"].value.v,
                       LAMBDA id : ~\E k \in DOMAIN objectTree.tree : objectTree.tree[k] = id)

\* Both resolved below a node that is not the root, with inner nodes dropped.
C10_Witness ==
    /\ ops["listNodes"] # NoOp /\ ops["listLeafNodes"] # NoOp
    /\ ops["listNodes"].state = "resolved"
    /\ ops["listLeafNodes"].state = "resolved"
    /\ ops["listNodes"].parentId = ops["listLeafNodes"].parentId
    /\ ops["listNodes"].parentId # Undefined
    /\ ops["listNodes"].parentId # Num(0)
    /\ ops["listLeafNodes"].value.v # <<>>
    /\ Len(ops["listLeafNodes"].value.v) < Len(ops["listNodes"].value.v)

\* The tree of the scenario: root 0 with children 1 and 2, node 1 with
\* children 3 and 4, node 2 a leaf.
ScenarioTree == <<0, 0, 1, 1>>

\* C11 (SpecTree): with the parent omitted the traversal is rooted at the
\* tree root: on the scenario tree listNodes() resolves with [1,2,3,4], the
\* nodes below the root, and listLeafNodes() resolves with [2,3,4].
C11_RootedAtTreeRoot ==
    (objectTree # NoTree /\ objectTree.tree = ScenarioTree)
       => /\ (/\ ops["listNodes"] # NoOp
              /\ ops["listNodes"].parentId = Undefined
              /\ ops["listNodes"].state = "resolved")
                => ops["listNodes"].value = List(<<1, 2, 3, 4>>)
          /\ (/\ ops["listLeafNodes"] # NoOp
              /\ ops["listLeafNodes"].parentId = Undefined
              /\ ops["listLeafNodes"].state = "resolved")
                => ops["listLeafNodes"].value = List(<<2, 3, 4>>)

\* Both calls were made without a parent and resolved on the scenario tree.
C11_Witness ==
    /\ objectTree # NoTree /\ objectTree.tree = ScenarioTree
    /\ ops["listNodes"] # NoOp /\ ops["listLeafNodes"] # NoOp
    /\ ops["listNodes"].parentId = Undefined
    /\ ops["listLeafNodes"].parentId = Undefined
    /\ ops["listNodes"].state = "resolved"
    /\ ops["listLeafNodes"].state = "resolved"

\* C12 (SpecPush): when the engine reports the missing tree to onError, during
\* the getObjectTree call or in a later turn, the push-form call raises the
\* error to its caller before it returns, and the node or fragment callback
\* is not invoked.
C12_PushFailsSynchronously ==
    \A m \in PushMethods :
        (push[m] # NoOp /\ push[m].first = "error" /\ push[m].calls = 1)
           => /\ push[m].ended = "threw"
              /\ push[m].uncaught = 0
              /\ push[m].seen = <<>>

\* C13 (SpecEnum): a pull-form enumeration called on the same tree and parent
\* as its push-form counterpart resolves with exactly the ids, in the same
\* order, that the push form's callback is called with; and when
\* getObjectTree reports an error, where the push form throws, the pull form
\* rejects its promise with that error.
C13_PullEqualsPush ==
    \A m \in ListMethods :
        (ops[m] # NoOp /\ push[PushOf(m)] # NoOp
            /\ ops[m].parentId = push[PushOf(m)].parent)
           => /\ (/\ ops[m].first = "success"
                  /\ push[PushOf(m)].first = "success"
                  /\ push[PushOf(m)].calls = 1)
                    => /\ ops[m].state = "resolved"
                       /\ ops[m].value = List(push[PushOf(m)].seen)
              /\ ops[m].first = "error"
                    => /\ ops[m].state = "rejected"
                       /\ ops[m].value = TreeError
                       /\ ops[m].settled = 1

\* listFragments resolved with the fragments enumerateFragments passed to its
\* callback, on a tree where these differ from the nodes below the parent.
C13_Witness ==
    /\ ops["listFragments"] # NoOp /\ push["enumerateFragments"] # NoOp
    /\ ops["listFragments"].parentId = push["enumerateFragments"].parent
    /\ ops["listFragments"].state = "resolved"
    /\ push["enumerateFragments"].first = "success"
    /\ push["enumerateFragments"].calls = 1
    /\ Len(push["enumerateFragments"].seen) >= 2
    /\ Len(push["enumerateFragments"].seen) < Len(objectTree.tree)

\* Both loads were answered by the engine.
BothAnswered == \A m \in LoadMethods : ops[m] # NoOp /\ ops[m].calls = 1

\* The promise of load call m is settled as its own document and selector
\* say, and nothing else was displayed for it.
OwnOutcome(m) ==
    IF ops[m].first = "error"
    THEN /\ ops[m].state = "rejected"
         /\ ops[m].value = LoadingError
         /\ ops[m].shown = {}
    ELSE /\ ops[m].state = onDocumentLoadSuccess(ops[m].viewableId, ops[m].urn).how
         /\ ops[m].value = onDocumentLoadSuccess(ops[m].viewableId, ops[m].urn).value
         /\ ops[m].shown = onDocumentLoadSuccess(ops[m].viewableId, ops[m].urn).show

\* The engine was asked for the document of call m by that call.
OwnRequest(m) == ops[m].request = DocumentRequest(ops[m].urn)

\* What the viewer displays when call m was the last to display a viewable.
NodeOf(m) == [tag |-> "node", doc |-> ops[m].urn, viewable |-> ops[m].value]

====
